---- MODULE Spec2Model ----
(***************************************************************************)
(* A model of deparse (src/src/deparse/core.py): the Tracker's crawl       *)
(* (fromPath / _fromPath / resolve), its load-order sort (_sortRequires),  *)
(* LineParser.resolve, the Paml extractor's embedded-script handling and   *)
(* the line engine (parsePath / parse / parseText) run on a Sugar file.    *)
(*                                                                         *)
(* A dependency item is a pair <<kind, name>>.  Python lists are           *)
(* sequences, Python dicts are functions whose DOMAIN is the set of keys.  *)
(***************************************************************************)
EXTENDS Integers, Sequences, FiniteSets, TLC

VARIABLES
    \* ---- Tracker fields (Tracker.__init__)
    provides,   \* list of <<path, provides-list>>
    requires,   \* list of items
    paths,      \* list of visited paths
    resolved,   \* dict item -> list of paths
    nodes,      \* dict item -> list of items
    \* ---- position inside Tracker.fromPath
    pc,         \* "idle" | "crawl" | "sort" | "load"
    call,       \* the arguments of the current (or last) fromPath call
    calls,      \* how many fromPath calls this Tracker has had
    stack,      \* the call stack of Tracker._fromPath
    \* ---- locals of Tracker._sortRequires
    loaded,     \* the list `loaded`
    todo,       \* the part of the sorted `requires` the for loop has not reached
    lstack,     \* the call stack of the nested function load()
    \* ---- what the last fromPath call gave its caller
    status,     \* "none" | "returned" | "raised"
    ret,        \* the returned dict (meaningful when status = "returned")
    err,        \* the exception (meaningful when status = "raised")
    \* ---- the file system the program runs on
    fs,         \* the absolute paths of the files that exist
    content,    \* what an extractor finds in each file
    lookup,     \* <<<<item, path>>, paths>>: what parser.resolve(item, path) finds
    \* ---- history, kept for the properties only
    parsed,     \* the paths parsePath was called on, in order
    visits,     \* for each element of paths, the requirement it was visited for
    hist,       \* per item, the merge of all that Tracker.resolve returned
    unres,      \* the <<item, path>> this crawl's Tracker.resolve found nothing for
    \* ---- one call of LineParser.resolve(item, path, dirs)
    rItem,      \* the argument item
    rPath,      \* the argument path
    rDirs,      \* the argument dirs
    rOut,       \* the returned list of <<kind, path>>
    rPc,        \* "call" | "done"
    \* ---- one Paml extractor and the text it parses
    text,            \* the lines of the file
    lineNo,          \* how many of them parseLine was called on
    ppc,             \* "idle" | "new" | "lines" | "done" | "raised"
    subparser,       \* Paml.subparser: the nested extractor, or NoSubparser
    subparserIndent, \* Paml.subparserIndent
    parserRequires,  \* the requires list the Paml and its nested extractors share
    hooks,           \* the hooks and rule tables run so far, in order
    \* ---- one Sugar extractor and the text it is run on
    sText,      \* the text of the file
    sEntry,     \* "parsePath" | "parse" | "parseText": the method that is called
    sPc,        \* "idle" | "new" | "parse" | "lines" | "done" | "raised"
    sLines,     \* the lines the for loop goes through
    sLineNo,    \* how many of them parseLine was called on
    version,    \* Sugar.version, 0 before onParse has set it
    sProvides,  \* Sugar.provides
    sRequires,  \* Sugar.requires
    sHooks      \* onParse, parseLine and onParseEnd as they were called, in order

trackerVars == <<provides, requires, paths, resolved, nodes>>
sortVars    == <<loaded, todo, lstack>>
crawlVars   == <<call, calls, stack>>
outVars     == <<status, ret, err>>
worldVars   == <<fs, content, lookup>>
histVars    == <<parsed, visits, hist, unres>>
resolveVars == <<rItem, rPath, rDirs, rOut, rPc>>
pamlVars    == <<text, lineNo, ppc, subparser, subparserIndent, parserRequires, hooks>>
sugarVars   == <<sText, sEntry, sPc, sLines, sLineNo, version, sProvides, sRequires, sHooks>>
vars        == <<trackerVars, pc, crawlVars, sortVars, outVars, worldVars,
                 histVars, resolveVars, pamlVars, sugarVars>>

----------------------------------------------------------------------------
(* Bounds *)

\* longest adjacency list nodes[m] drawn for the sorter
MaxDeps == 2
\* longest `requires` list drawn for the sorter
MaxSeeds == 2

\* fromPath calls made on one Tracker
MaxCalls == 2
\* the interpreter's recursion limit, in frames of _fromPath
MaxDepth == 6

----------------------------------------------------------------------------
(* Values of the variables that stand for "nothing yet" *)

EmptyRet == [provides |-> << >>, resolved |-> << >>, requires |-> << >>]

NoErr == [kind |-> "none", path |-> << >>, unwound |-> 0]

NoCall == [path |-> << >>, recursive |-> FALSE]

NoHistory ==
    /\ parsed = << >>
    /\ visits = << >>
    /\ hist = << >>
    /\ unres = {}

----------------------------------------------------------------------------
(* Python list helpers *)

Range(s) == {s[i] : i \in 1..Len(s)}

\* `x in s` for a list s
IsIn(x, s) == \E i \in 1..Len(s) : s[i] = x

\* `del s[index]` with a 0-based index
DelAt(s, index) ==
    [i \in 1..(Len(s) - 1) |-> IF i <= index THEN s[i] ELSE s[i + 1]]

\* the 1-based position of the first x in s (0 when absent)
IndexOf(x, s) ==
    IF IsIn(x, s) THEN CHOOSE i \in 1..Len(s) : s[i] = x /\ \A j \in 1..(i-1) : s[j] # x
    ELSE 0

NoDup(s) == \A i, j \in 1..Len(s) : s[i] = s[j] => i = j

\* all duplicate-free sequences over S of length at most n
RECURSIVE SeqsUpTo(_, _)
SeqsUpTo(S, n) ==
    IF n = 0 THEN {<< >>}
    ELSE LET shorter == SeqsUpTo(S, n - 1)
         IN shorter \cup {Append(s, x) : s \in {t \in shorter : Len(t) = n - 1},
                                         x \in S}

DupFreeSeqs(S, n) == {s \in SeqsUpTo(S, n) : NoDup(s)}

\* Tracker._merge(a, b): append to a the elements of b it does not hold yet
RECURSIVE Merge(_, _)
Merge(a, b) ==
    IF b = << >> THEN a
    ELSE Merge(IF IsIn(Head(b), a) THEN a ELSE Append(a, Head(b)), Tail(b))


----------------------------------------------------------------------------
(* Path strings.  A string is the sequence of its tokens; the tokens are    *)
(* prefix-free, so comparing two strings token by token in TokenRank order  *)
(* is Python's comparison of the strings.                                   *)

TokenRank(t) ==
    CASE t = "+" -> 1  [] t = "-" -> 2  [] t = "." -> 3  [] t = "/" -> 4
      [] t = "1" -> 5  [] t = "2" -> 6  [] t = "A" -> 7  [] t = "B" -> 8
      [] t = "P" -> 9  [] t = "Q" -> 10
      [] t = "css" -> 11 [] t = "gmodule" -> 12 [] t = "js" -> 13
      [] t = "lib" -> 14 [] t = "paml" -> 15 [] t = "pcss" -> 16
      [] t = "sjs" -> 17 [] t = "sub" -> 18 [] t = "txt" -> 19
      [] t = "u" -> 20 [] t = "w" -> 21 [] t = "x" -> 22

\* a < b for two strings
RECURSIVE LexLess(_, _)
LexLess(a, b) ==
    IF b = << >> THEN FALSE
    ELSE IF a = << >> THEN TRUE
    ELSE IF Head(a) = Head(b) THEN LexLess(Tail(a), Tail(b))
    ELSE TokenRank(Head(a)) < TokenRank(Head(b))

\* sorted(list of strings)
SortPaths(s) == SortSeq(s, LexLess)

\* a set of strings as a list (the order glob.glob lists a directory in is
\* not specified; LineParser._glob sorts whatever it collected)
RECURSIVE SetToSeq(_)
SetToSeq(S) ==
    IF S = {} THEN << >>
    ELSE LET x == CHOOSE y \in S : \A z \in S : z = y \/ LexLess(y, z)
         IN <<x>> \o SetToSeq(S \ {x})

StartsWith(s, pre) == Len(pre) <= Len(s) /\ SubSeq(s, 1, Len(pre)) = pre

\* `sub in s` for two strings
Contains(s, sub) ==
    \E i \in 0..(Len(s) - Len(sub)) : SubSeq(s, i + 1, i + Len(sub)) = sub

\* the position of the last token t of s (0 when there is none)
LastIndexOf(t, s) ==
    IF \E i \in 1..Len(s) : s[i] = t
    THEN CHOOSE i \in 1..Len(s) : s[i] = t /\ \A j \in (i+1)..Len(s) : s[j] # t
    ELSE 0

\* os.getcwd()
Cwd == <<"/", "w">>

IsAbs(p) == p # << >> /\ p[1] = "/"

\* os.path.join(a, b)
Join(a, b) ==
    IF IsAbs(b) THEN b
    ELSE IF a = << >> \/ a[Len(a)] = "/" THEN a \o b
    ELSE a \o <<"/">> \o b

\* os.path.normpath on the paths of this model: a trailing slash goes
StripSlash(p) ==
    IF Len(p) > 1 /\ p[Len(p)] = "/" THEN SubSeq(p, 1, Len(p) - 1) ELSE p

\* os.path.abspath(p)
Abspath(p) == StripSlash(IF IsAbs(p) THEN p ELSE Join(Cwd, p))

\* os.path.dirname(p)
Dirname(p) ==
    LET i == LastIndexOf("/", p)
    IN IF i = 0 THEN << >>
       ELSE IF i = 1 THEN <<"/">>
       ELSE SubSeq(p, 1, i - 1)

\* os.path.basename(p)
Basename(p) == SubSeq(p, LastIndexOf("/", p) + 1, Len(p))

\* path.rsplit(".", 1)[-1]
Ext(p) == SubSeq(p, LastIndexOf(".", p) + 1, Len(p))

\* path.split("+")
RECURSIVE SplitPlus(_)
SplitPlus(p) ==
    IF \A i \in 1..Len(p) : p[i] # "+" THEN <<p>>
    ELSE LET i == CHOOSE k \in 1..Len(p) : p[k] = "+" /\ \A j \in 1..(k-1) : p[j] # "+"
         IN <<SubSeq(p, 1, i - 1)>> \o SplitPlus(SubSeq(p, i + 1, Len(p)))

\* the directories that exist: the working directory, its subdirectory sub,
\* and every directory that holds a file
RECURSIVE Ancestors(_)
Ancestors(p) ==
    LET d == Dirname(p)
    IN IF d = << >> \/ d = <<"/">> \/ d = p THEN {} ELSE {d} \cup Ancestors(d)

Directories == {Cwd, Cwd \o <<"/", "sub">>} \cup UNION {Ancestors(f) : f \in fs}

\* os.path.isdir(p), os.path.exists(p)
IsDir(p) == Abspath(p) \in Directories

Exists(p) == Abspath(p) \in fs \/ IsDir(p)

----------------------------------------------------------------------------
(* LineParser.resolve and its helpers *)

\* LineParser.PATHS
PathsTable(kind) ==
    CASE kind = "js:module"   -> << <<"lib", "/", "js">>,   << >> >>
      [] kind = "js:gmodule"  -> << <<"lib", "/", "js">>,   << >> >>
      [] kind = "sjs:module"  -> << <<"lib", "/", "sjs">>,  << >> >>
      [] kind = "sjs:gmodule" -> << <<"lib", "/", "sjs">>,  << >> >>
      [] kind = "css:module"  -> << <<"lib", "/", "css">>,  << >> >>
      [] kind = "pcss:module" -> << <<"lib", "/", "pcss">>, << >> >>

\* os.path.join(d, sd) where sd may be "": the result then ends in a slash
JoinDir(d, sd) ==
    IF sd = << >> THEN (IF d = << >> \/ d[Len(d)] = "/" THEN d ELSE d \o <<"/">>)
    ELSE Join(d, sd)

\* LineParser._subdirs(dirs, *subdirs)
RECURSIVE Subdirs(_, _)
Subdirs(dirs, subdirs) ==
    IF subdirs = << >> THEN dirs
    ELSE [i \in 1..Len(dirs) |-> JoinDir(dirs[i], Head(subdirs))]
         \o Subdirs(dirs, Tail(subdirs))

\* a glob pattern is the list of its literal pieces, a "*" between each two:
\* does the string s match it?  "*" matches any run of tokens but "/"
RECURSIVE MatchPieces(_, _)
MatchPieces(pieces, s) ==
    IF Len(pieces) = 1 THEN s = pieces[1]
    ELSE /\ StartsWith(s, pieces[1])
         /\ LET rest == SubSeq(s, Len(pieces[1]) + 1, Len(s))
            IN \E k \in 0..Len(rest) :
                  /\ \A i \in 1..k : rest[i] # "/"
                  /\ MatchPieces(Tail(pieces), SubSeq(rest, k + 1, Len(rest)))

\* the strings glob.glob could return: the spellings of what exists
Spellings ==
    LET all == fs \cup Directories
    IN all \cup {SubSeq(f, Len(Cwd) + 2, Len(f)) :
                    f \in {g \in all : StartsWith(g, Cwd \o <<"/">>)}}

\* glob.glob(os.path.join(d, e)) as a set
GlobSet(d, e) ==
    LET pieces == <<Join(d, e[1])>> \o Tail(e)
    IN {s \in Spellings : MatchPieces(pieces, s) /\ Exists(s)}

\* the inner loop of _glob: for e in expressions
RECURSIVE GlobExprs(_, _)
GlobExprs(d, exprs) ==
    IF exprs = << >> THEN << >>
    ELSE SetToSeq(GlobSet(d, Head(exprs))) \o GlobExprs(d, Tail(exprs))

\* the outer loop of _glob: for d in dirs
RECURSIVE GlobDirs(_, _)
GlobDirs(dirs, exprs) ==
    IF dirs = << >> THEN << >>
    ELSE GlobExprs(Head(dirs), exprs) \o GlobDirs(Tail(dirs), exprs)

\* LineParser._glob(dirs, *expressions)
Glob(dirs, exprs) == SortPaths(GlobDirs(dirs, exprs))

\* [(kind, _) for _ in paths if keep(_)], sorted: the kind is the same in
\* every pair, so the pairs are in the order of their paths
Tagged(kind, ps) == [i \in 1..Len(ps) |-> <<kind, ps[i]>>]

HasGModule(p) == Contains(p, <<".", "gmodule">>)

NoGModule(p) == ~HasGModule(p)

\* name.replace(".", "/")
ReplaceDots(name) == [i \in 1..Len(name) |-> IF name[i] = "." THEN "/" ELSE name[i]]

\* `preferred if preferred else (plain[-1],) if plain else ()`
PreferAllElseFirst(preferred, plain) ==
    IF preferred # << >> THEN preferred
    ELSE IF plain # << >> THEN <<plain[1]>> ELSE << >>

PreferBoth(preferred, plain) == preferred \o plain

PreferAllElseLast(preferred, plain) ==
    IF preferred # << >> THEN preferred
    ELSE IF plain # << >> THEN <<plain[Len(plain)]>> ELSE << >>

NoKind == "None"

KindEndsWithFile(t) == t \in {"js:file", "css:file", "pcss:file", "paml:file", "*:file"}

KindEndsWithUrl(t) == t \in {"js:url", "css:url"}

\* t.split(":", 1)[0]
KindFormat(t) ==
    CASE t = "js:file" -> <<"js">> [] t = "css:file" -> <<"css">>
      [] t = "pcss:file" -> <<"pcss">> [] t = "paml:file" -> <<"paml">>
      [] t = "*:file" -> <<"*">>

\* the dirs of resolve: the given ones, the working directory, and the
\* directory of path (path itself when it is a directory)
ResolveDirs(path, dirs) ==
    dirs \o <<Cwd, IF ~IsDir(path) THEN Dirname(Abspath(path)) ELSE Abspath(path)>>

\* `if not t or t == "js:module"`
ModuleStrategy(name, dirs) ==
    LET n    == ReplaceDots(name)
        js   == Tagged("js:module",
                  SelectSeq(Glob(Subdirs(dirs, PathsTable("js:module")),
                                 << <<n \o <<"-">>, <<".", "js">> >> >>), NoGModule))
        sjs  == Tagged("sjs:module",
                  Glob(Subdirs(dirs, PathsTable("sjs:module")),
                       << <<n \o <<".", "sjs">> >>,
                          <<n, <<"-">>, <<".", "sjs">> >> >>))
    IN PreferAllElseLast(sjs, js)

\* `if not t or t == "js:gmodule"`
GModuleStrategy(name, dirs) ==
    LET n    == ReplaceDots(name)
        js   == Tagged("js:gmodule",
                  SelectSeq(Glob(Subdirs(dirs, PathsTable("js:module")),
                                 << <<n \o <<"-">>, <<".", "js">> >> >>), HasGModule))
        sjs  == Tagged("sjs:gmodule",
                  Glob(Subdirs(dirs, PathsTable("sjs:module")),
                       << <<n, <<".", "sjs">> >>,
                          <<n, <<"-">>, <<".", "sjs">> >> >>))
    IN PreferAllElseLast(sjs, js)

\* `if not t or t == "css:module"`
CssStrategy(name, dirs) ==
    LET css  == Tagged("css:module",
                  Glob(Subdirs(dirs, PathsTable("css:module")),
                       << <<name \o <<".", "css">> >> >>))
        pcss == Tagged("pcss:module",
                  Glob(Subdirs(dirs, PathsTable("pcss:module")),
                       << <<name, <<".", "pcss">> >> >>))
    IN PreferAllElseLast(pcss, css)

\* for d in dirs: p = join(d, n); if exists(p): res.append(("*:file", p))
RECURSIVE FileInDirs(_, _)
FileInDirs(n, dirs) ==
    IF dirs = << >> THEN << >>
    ELSE (IF Exists(Join(Head(dirs), n)) THEN << <<"*:file", Join(Head(dirs), n)>> >>
          ELSE << >>)
         \o FileInDirs(n, Tail(dirs))

\* `if not t or t.endswith(":file")`
FileStrategy(t, name, dirs) ==
    LET altname == name \o (IF t # NoKind THEN <<".">> \o KindFormat(t) ELSE << >>)
    IN FileInDirs(name, dirs) \o FileInDirs(altname, dirs)

\* reduce(lambda x, y: x + [y] if y not in x else x, res, [])
Dedup(s) == Merge(<< >>, s)

\* LineParser._resolve: the subclasses of this file do not override it
ResolveHook(res, item, path) == res

\* LineParser.resolve(item, path, dirs)
LPResolve(item, path, dirs0) ==
    LET t     == item[1]
        name  == item[2]
        dirs  == ResolveDirs(path, dirs0)
        r1    == IF t = NoKind \/ t = "js:module" THEN ModuleStrategy(name, dirs) ELSE << >>
        name1 == IF t = NoKind \/ t = "js:module" THEN ReplaceDots(name) ELSE name
        r2    == IF t = NoKind \/ t = "js:gmodule" THEN GModuleStrategy(name1, dirs) ELSE << >>
        name2 == IF t = NoKind \/ t = "js:gmodule" THEN ReplaceDots(name1) ELSE name1
        r3    == IF t = NoKind \/ t = "css:module" THEN CssStrategy(name2, dirs) ELSE << >>
        r4    == IF t = NoKind \/ KindEndsWithFile(t) THEN FileStrategy(t, name2, dirs) ELSE << >>
        r5    == IF t # NoKind /\ KindEndsWithUrl(t) THEN <<item>> ELSE << >>
    IN Dedup(ResolveHook(r1 \o r2 \o r3 \o r4 \o r5, item, path))

\* Paml.subparser = None
NoSubparser == [id |-> 0, lang |-> "none", version |-> 0]

\* no Paml extractor is parsing
IdlePaml ==
    /\ text = << >>
    /\ lineNo = 0
    /\ ppc = "idle"
    /\ subparser = NoSubparser
    /\ subparserIndent = 0
    /\ parserRequires = << >>
    /\ hooks = << >>

\* no Sugar extractor is parsing
IdleSugar ==
    /\ sText = << >>
    /\ sEntry = "none"
    /\ sPc = "idle"
    /\ sLines = << >>
    /\ sLineNo = 0
    /\ version = 0
    /\ sProvides = << >>
    /\ sRequires = << >>
    /\ sHooks = << >>

\* no call of LineParser.resolve is being looked at
IdleResolve ==
    /\ rItem = <<NoKind, << >> >>
    /\ rPath = << >>
    /\ rDirs = << >>
    /\ rOut = << >>
    /\ rPc = "done"

----------------------------------------------------------------------------
(* Tracker.fromPath, Tracker._fromPath, Tracker.resolve *)

\* the keys of PARSERS
ParserTable ==
    { <<"paml">>, <<"sjs">>, <<"js">>, <<"pcss">>, <<"c">>, <<"cxx">>,
      <<"c", "+", "+">>, <<"cpp">>, <<"h">> }

\* self.PARSERS.get(ext) finds a parser
HasParser(path) == Ext(path) \in ParserTable

\* `not os.path.exists(path) and "+" in path`
IsComposite(path) == ~Exists(path) /\ IsIn("+", path)

\* paths = path.split("+"); prefix = dirname(paths[0]);
\* paths = [paths[0]] + [join(prefix, _) for _ in paths[1:]]
ExpandComposite(path) ==
    LET parts  == SplitPlus(path)
        prefix == Dirname(parts[1])
    IN <<parts[1]>> \o [i \in 1..(Len(parts) - 1) |-> Join(prefix, parts[i + 1])]

\* `path in self.paths`
PathVisitedNever(path) == FALSE

PathVisited(path) == IsIn(path, paths)

\* a frame of _fromPath: phase "call" (entered), "parse" (path recorded, parser
\* found), "loop" (in `for dependency in parser.requires`)
CallFrame(path, type, via) ==
    [phase |-> "call", path |-> path, type |-> type, via |-> via,
     deps |-> << >>, i |-> 1, cands |-> << >>, j |-> 0]

EntryVia == [item |-> <<NoKind, << >> >>, from |-> << >>]

Top == stack[Len(stack)]

\* _fromPath returns to its caller; the outermost one returns to fromPath,
\* which goes on to sort
PopFrame ==
    /\ stack' = SubSeq(stack, 1, Len(stack) - 1)
    /\ pc' = IF Len(stack) = 1 THEN "sort" ELSE "crawl"

\* an exception nobody catches: every frame is unwound and fromPath raises
Raise(kind, path) ==
    /\ stack' = << >>
    /\ pc' = "idle"
    /\ status' = "raised"
    /\ err' = [kind |-> kind, path |-> path, unwound |-> Len(stack)]
    /\ ret' = ret

PathsOf(r) == [i \in 1..Len(r) |-> r[i][2]]

\* the <<item, path>> Tracker.resolve can be called with when the file at
\* path is crawled: the requirements of the file that are not URLs
Queries(path) ==
    IF Abspath(path) \in fs /\ content[Abspath(path)].ok
    THEN {<<d, path>> : d \in {e \in Range(content[Abspath(path)].requires) :
                                  ~KindEndsWithUrl(e[1])}}
    ELSE {}

\* parser.resolve(item, path) for the queries of the paths ps that lookup
\* does not hold yet.  The file system does not change while fromPath runs:
\* what resolve finds in it is looked up as the call begins, and read by
\* Tracker.resolve
ResolveTable(ps) ==
    LET known == {e[1] : e \in lookup}
    IN lookup \cup {<<q, PathsOf(LPResolve(q[1], q[2], << >>))>> :
                       q \in UNION {Queries(path) : path \in ps} \ known}

\* Tracker.fromPath(path, recursive) is called
FromPath(path, recursive) ==
    /\ pc = "idle"
    /\ calls < MaxCalls
    /\ calls' = calls + 1
    /\ call' = [path |-> path, recursive |-> recursive]
    /\ stack' = <<CallFrame(path, NoKind, EntryVia)>>
    /\ pc' = "crawl"
    /\ status' = "none"
    /\ err' = NoErr
    /\ unres' = {}
    /\ lookup' = ResolveTable(fs \cup {path})
    /\ UNCHANGED <<trackerVars, sortVars, ret, fs, content, parsed, visits, hist,
                   resolveVars, pamlVars, sugarVars>>

\* line 477-481: the composite path is expanded, and the first recursive call
\* names `item`, which is no variable of _fromPath: NameError
CrawlComposite ==
    /\ pc = "crawl"
    /\ Top.phase = "call"
    /\ IsComposite(Top.path)
    /\ Len(ExpandComposite(Top.path)) > 0
    /\ Raise("NameError", Top.path)
    /\ UNCHANGED <<trackerVars, call, calls, sortVars, worldVars, histVars, resolveVars, pamlVars, sugarVars>>

\* line 482-483: the path was visited before
CrawlVisited ==
    /\ pc = "crawl"
    /\ Top.phase = "call"
    /\ ~IsComposite(Top.path)
    /\ PathVisited(Top.path)
    /\ PopFrame
    /\ UNCHANGED <<trackerVars, call, calls, sortVars, outVars, worldVars, histVars,
                   resolveVars, pamlVars, sugarVars>>

\* line 484-486: directories are skipped
CrawlDir ==
    /\ pc = "crawl"
    /\ Top.phase = "call"
    /\ ~IsComposite(Top.path)
    /\ ~PathVisited(Top.path)
    /\ IsDir(Top.path)
    /\ PopFrame
    /\ UNCHANGED <<trackerVars, call, calls, sortVars, outVars, worldVars, histVars,
                   resolveVars, pamlVars, sugarVars>>

\* self.paths.append(path)
MarkedKeepsPaths(path) == paths

Marked(path) == Append(paths, path)

\* line 489-496: the path is recorded; no parser for its extension: return
CrawlNoParser ==
    /\ pc = "crawl"
    /\ Top.phase = "call"
    /\ ~IsComposite(Top.path)
    /\ ~PathVisited(Top.path)
    /\ ~IsDir(Top.path)
    /\ ~HasParser(Top.path)
    /\ paths' = Marked(Top.path)
    /\ visits' = Append(visits, [path |-> Top.path, via |-> Top.via])
    /\ PopFrame
    /\ UNCHANGED <<provides, requires, resolved, nodes, call, calls, sortVars, outVars,
                   worldVars, parsed, hist, unres, resolveVars, pamlVars, sugarVars>>

\* line 489-492: the path is recorded and a parser found for its extension
CrawlMark ==
    /\ pc = "crawl"
    /\ Top.phase = "call"
    /\ ~IsComposite(Top.path)
    /\ ~PathVisited(Top.path)
    /\ ~IsDir(Top.path)
    /\ HasParser(Top.path)
    /\ paths' = Marked(Top.path)
    /\ visits' = Append(visits, [path |-> Top.path, via |-> Top.via])
    /\ stack' = [stack EXCEPT ![Len(stack)].phase = "parse"]
    /\ UNCHANGED <<provides, requires, resolved, nodes, pc, call, calls, sortVars,
                   outVars, worldVars, parsed, hist, unres, resolveVars, pamlVars, sugarVars>>

\* parser_type().parsePath(path, type): "missing" when open() fails, "malformed"
\* when a handler's assertion fails, else the parser's provides and requires
ParsePath(path, type) ==
    IF Abspath(path) \notin fs THEN [outcome |-> "missing"]
    ELSE IF ~content[Abspath(path)].ok THEN [outcome |-> "malformed"]
    ELSE [outcome |-> "ok",
          provides |-> content[Abspath(path)].provides,
          requires |-> content[Abspath(path)].requires]

\* for name in parser.provides: nodes[name] = merge(nodes[name] or [], requires)
RECURSIVE NodesMerged(_, _, _)
NodesMerged(nd, names, reqs) ==
    IF names = << >> THEN nd
    ELSE LET name == Head(names)
             old  == IF name \in DOMAIN nd THEN nd[name] ELSE << >>
             nd2  == [k \in DOMAIN nd \cup {name} |->
                        IF k = name THEN Merge(old, reqs) ELSE nd[k]]
         IN NodesMerged(nd2, Tail(names), reqs)

\* line 499-504: what a parse that returned adds to the Tracker
Aggregated(path, result) ==
    [provides |-> Append(provides, <<path, result.provides>>),
     requires |-> Merge(requires, result.requires),
     nodes    |-> NodesMerged(nodes, result.provides, result.requires)]

\* line 498: what a parse that raised leaves of the Tracker: lines 499-504
\* are not reached
AfterFailedParseRecordsFile(path) ==
    [provides |-> Append(provides, <<path, << >> >>),
     requires |-> requires,
     nodes    |-> nodes]

AfterFailedParse(path) ==
    [provides |-> provides, requires |-> requires, nodes |-> nodes]

\* line 498-504: the file is parsed and its declarations are merged
CrawlParse ==
    /\ pc = "crawl"
    /\ Top.phase = "parse"
    /\ LET result == ParsePath(Top.path, Top.type)
       IN /\ result.outcome = "ok"
          /\ LET agg == Aggregated(Top.path, result)
             IN /\ provides' = agg.provides
                /\ requires' = agg.requires
                /\ nodes' = agg.nodes
          /\ stack' = [stack EXCEPT ![Len(stack)].phase = "loop",
                                    ![Len(stack)].deps = result.requires]
    /\ parsed' = Append(parsed, Top.path)
    /\ UNCHANGED <<paths, resolved, pc, call, calls, sortVars, outVars, worldVars,
                   visits, hist, unres, resolveVars, pamlVars, sugarVars>>

\* line 498: parsePath raises (IOError from open, AssertionError from
\* Paml._parseAttributes); nothing catches it
CrawlParseFails ==
    /\ pc = "crawl"
    /\ Top.phase = "parse"
    /\ LET result == ParsePath(Top.path, Top.type)
       IN /\ result.outcome # "ok"
          /\ Raise(IF result.outcome = "missing" THEN "IOError" ELSE "AssertionError",
                   Top.path)
    /\ LET left == AfterFailedParse(Top.path)
       IN /\ provides' = left.provides
          /\ requires' = left.requires
          /\ nodes' = left.nodes
    /\ parsed' = Append(parsed, Top.path)
    /\ UNCHANGED <<paths, resolved, call, calls, sortVars, worldVars, visits, hist,
                   unres, resolveVars, pamlVars, sugarVars>>

\* a str is never equal to a tuple
StrEqualsTuple(str, tuple) == FALSE

\* `name in self.resolved`: the keys of resolved are items, name is a str
NameInResolved(name) == \E k \in DOMAIN resolved : StrEqualsTuple(name, k)

\* [_[1] for _ in parser.resolve(item, path)] or (), as the call of fromPath
\* that is running finds it
ResolvedPaths(item, path) ==
    (CHOOSE e \in lookup : e[1] = <<item, path>>)[2]

\* Tracker.resolve: the new value of self.resolved
\* if name not in self.resolved: self.resolved[item] = []
\* self.resolved[item] = self._merge(self.resolved[item], res)
ResolvedAfter(item, res) ==
    LET slot == IF NameInResolved(item[2]) THEN resolved[item] ELSE << >>
    IN [k \in DOMAIN resolved \cup {item} |->
          IF k = item THEN Merge(slot, res) ELSE resolved[k]]

\* the history of what Tracker.resolve returned for each item
HistAfter(item, res) ==
    [k \in DOMAIN hist \cup {item} |->
        IF k = item THEN Merge(IF item \in DOMAIN hist THEN hist[item] ELSE << >>, res)
        ELSE hist[k]]

\* `if recursive:` ... `for dependency_path in resolved:` has a first turn
Recurses(recursive, res) == recursive /\ res # << >>

\* where `for dependency in parser.requires` goes on after the dependency at
\* index i: an unresolved one is logged (line 513-514) and the loop continues
NextDependencyStopsWhenUnresolved(i, deps, res) ==
    IF res = << >> THEN Len(deps) + 1 ELSE i + 1

NextDependency(i, deps, res) == i + 1

\* line 506-516, one turn of `for dependency in parser.requires`, up to the
\* inner loop: URLs are skipped, the others are resolved
CrawlDependency ==
    /\ pc = "crawl"
    /\ Top.phase = "loop"
    /\ Top.j = 0
    /\ Top.i <= Len(Top.deps)
    /\ LET dependency == Top.deps[Top.i]
       IN IF KindEndsWithUrl(dependency[1])
          THEN /\ stack' = [stack EXCEPT ![Len(stack)].i = Top.i + 1]
               /\ UNCHANGED <<resolved, hist, unres>>
          ELSE LET res == ResolvedPaths(dependency, Top.path)
               IN /\ resolved' = ResolvedAfter(dependency, res)
                  /\ hist' = HistAfter(dependency, res)
                  /\ unres' = IF res = << >> THEN unres \cup {<<dependency, Top.path>>}
                              ELSE unres
                  /\ stack' = IF Recurses(call.recursive, res)
                              THEN [stack EXCEPT ![Len(stack)].cands = res,
                                                 ![Len(stack)].j = 1]
                              ELSE [stack EXCEPT ![Len(stack)].i =
                                                     NextDependency(Top.i, Top.deps, res)]
    /\ UNCHANGED <<provides, requires, paths, nodes, pc, call, calls, sortVars, outVars,
                   worldVars, parsed, visits, resolveVars, pamlVars, sugarVars>>

\* line 515-516, one turn of `for dependency_path in resolved`: _fromPath is
\* called on the candidate, with the dependency's kind as type
CrawlRecurse ==
    /\ pc = "crawl"
    /\ Top.phase = "loop"
    /\ Top.j >= 1
    /\ IF Len(stack) >= MaxDepth
       THEN /\ Raise("RecursionError", Top.path)
            /\ UNCHANGED call
       ELSE LET dependency == Top.deps[Top.i]
                last       == Top.j = Len(Top.cands)
                caller     == [Top EXCEPT !.j = IF last THEN 0 ELSE Top.j + 1,
                                          !.i = IF last THEN Top.i + 1 ELSE Top.i,
                                          !.cands = IF last THEN << >> ELSE Top.cands]
                callee     == CallFrame(Top.cands[Top.j], dependency[1],
                                        [item |-> dependency, from |-> Top.path])
            IN /\ stack' = SubSeq(stack, 1, Len(stack) - 1) \o <<caller, callee>>
               /\ UNCHANGED <<pc, call, outVars>>
    /\ UNCHANGED <<trackerVars, calls, sortVars, worldVars, histVars, resolveVars, pamlVars, sugarVars>>

\* the loop over parser.requires is over: _fromPath returns
CrawlReturn ==
    /\ pc = "crawl"
    /\ Top.phase = "loop"
    /\ Top.j = 0
    /\ Top.i > Len(Top.deps)
    /\ PopFrame
    /\ UNCHANGED <<trackerVars, call, calls, sortVars, outVars, worldVars, histVars,
                   resolveVars, pamlVars, sugarVars>>

----------------------------------------------------------------------------
(* Tracker._sortRequires *)

\* self.nodes.get(module) or ()
NodesGet(module) == IF module \in DOMAIN nodes THEN nodes[module] ELSE << >>

\* the sort key: lambda _: len(self.nodes.get(_) or ())
SortKey(item) == Len(NodesGet(item))

\* sorted() is stable: x goes after every element whose key is not greater
RECURSIVE InsertByKey(_, _)
InsertByKey(x, s) ==
    IF s = << >> THEN <<x>>
    ELSE IF SortKey(x) < SortKey(Head(s)) THEN <<x>> \o s
    ELSE <<Head(s)>> \o InsertByKey(x, Tail(s))

RECURSIVE SortedPrefix(_, _)
SortedPrefix(s, n) ==
    IF n = 0 THEN << >> ELSE InsertByKey(s[n], SortedPrefix(s, n - 1))

\* sorted(requires, key=...)
SortedByDeps(s) == SortedPrefix(s, Len(s))

\* the tail of load(): del loaded[index]; if module not in loaded: append
LoadFinishNoReappend(l, index, module) == DelAt(l, index)

LoadFinishKeepProvisional(l, index, module) == l

LoadFinish(l, index, module) ==
    LET l2 == DelAt(l, index)
    IN IF ~IsIn(module, l2) THEN Append(l2, module) ELSE l2

\* entering load(module): return at once when module is in loaded, else
\* remember index = len(loaded), append the module, and start its loop
LoadCall(module, stk, l) ==
    IF IsIn(module, l)
    THEN [stk |-> stk, l |-> l]
    ELSE [stk |-> Append(stk, [module |-> module, index |-> Len(l), k |-> 1]),
          l   |-> Append(l, module)]

\* _sortRequires starts: loaded = [], requires = sorted(...)
SortBegin ==
    /\ pc = "sort"
    /\ loaded' = << >>
    /\ todo' = SortedByDeps(requires)
    /\ lstack' = << >>
    /\ pc' = "load"
    /\ UNCHANGED <<trackerVars, crawlVars, outVars, worldVars, histVars, resolveVars, pamlVars, sugarVars>>

\* for _ in requires: load(_)
LoadSeed ==
    /\ pc = "load"
    /\ lstack = << >>
    /\ todo # << >>
    /\ LET c == LoadCall(Head(todo), << >>, loaded)
       IN /\ lstack' = c.stk
          /\ loaded' = c.l
    /\ todo' = Tail(todo)
    /\ UNCHANGED <<trackerVars, pc, crawlVars, outVars, worldVars, histVars, resolveVars, pamlVars, sugarVars>>

\* one turn of `for required in self.nodes.get(module) or ()`
LoadStep ==
    /\ pc = "load"
    /\ lstack # << >>
    /\ LET top  == lstack[Len(lstack)]
           deps == NodesGet(top.module)
       IN /\ top.k <= Len(deps)
          /\ LET required == deps[top.k]
                 advanced == [lstack EXCEPT ![Len(lstack)].k = top.k + 1]
             IN IF required = top.module
                THEN \* a module that requires itself: continue
                     /\ lstack' = advanced
                     /\ loaded' = loaded
                ELSE LET c == LoadCall(required, advanced, loaded)
                     IN /\ lstack' = c.stk
                        /\ loaded' = c.l
    /\ UNCHANGED <<trackerVars, pc, crawlVars, todo, outVars, worldVars, histVars, resolveVars, pamlVars, sugarVars>>

\* the loop of load() is over: fix the module's place and return
LoadReturn ==
    /\ pc = "load"
    /\ lstack # << >>
    /\ LET top == lstack[Len(lstack)]
       IN /\ top.k > Len(NodesGet(top.module))
          /\ loaded' = LoadFinish(loaded, top.index, top.module)
          /\ lstack' = SubSeq(lstack, 1, Len(lstack) - 1)
    /\ UNCHANGED <<trackerVars, pc, crawlVars, todo, outVars, worldVars, histVars, resolveVars, pamlVars, sugarVars>>

\* _sortRequires returns loaded, fromPath returns its dict
SortEnd ==
    /\ pc = "load"
    /\ lstack = << >>
    /\ todo = << >>
    /\ ret' = [provides |-> provides, resolved |-> resolved, requires |-> loaded]
    /\ status' = "returned"
    /\ pc' = "idle"
    /\ UNCHANGED <<trackerVars, crawlVars, sortVars, err, worldVars, histVars, resolveVars, pamlVars, sugarVars>>

----------------------------------------------------------------------------
(* The sorter on its own: every aggregate graph and requires list within    *)
(* the bounds, then one run of _sortRequires.                               *)

SortItems == {<<"js:module", <<"A">> >>, <<"js:module", <<"B">> >>,
              <<"js:module", <<"x">> >>}

InitSort ==
    /\ provides = << >>
    /\ paths = << >>
    /\ resolved = << >>
    /\ requires \in DupFreeSeqs(SortItems, MaxSeeds)
    /\ \E keys \in SUBSET SortItems :
          nodes \in [keys -> DupFreeSeqs(SortItems, MaxDeps)]
    /\ pc = "sort"
    /\ loaded = << >>
    /\ todo = << >>
    /\ lstack = << >>
    /\ status = "none"
    /\ ret = EmptyRet
    /\ err = NoErr
    /\ call = NoCall
    /\ calls = 0
    /\ stack = << >>
    /\ fs = {}
    /\ content = << >>
    /\ lookup = {}
    /\ IdlePaml
    /\ IdleSugar
    /\ NoHistory
    /\ IdleResolve

NextSort == SortBegin \/ LoadSeed \/ LoadStep \/ LoadReturn \/ SortEnd

SpecSort == InitSort /\ [][NextSort]_vars

----------------------------------------------------------------------------
(* LineParser.resolve on its own: every file system within ResolveUniverse, *)
(* every item of ResolveItems, every context path of ResolveContexts, then  *)
(* one call.                                                                *)

ResolveUniverse ==
    { <<"/", "w", "/", "lib", "/", "js", "/", "A", "-", "1", ".", "js">>,
      <<"/", "w", "/", "lib", "/", "js", "/", "A", "-", "2", ".", "js">>,
      <<"/", "w", "/", "sub", "/", "A", "-", "1", ".", "gmodule", ".", "js">>,
      <<"/", "w", "/", "sub", "/", "A", "-", "2", ".", "gmodule", ".", "js">>,
      <<"/", "w", "/", "lib", "/", "sjs", "/", "A", ".", "sjs">>,
      <<"/", "w", "/", "sub", "/", "A", "-", "1", ".", "sjs">>,
      <<"/", "w", "/", "sub", "/", "A", "x", ".", "sjs">>,
      <<"/", "w", "/", "A", ".", "css">>,
      <<"/", "w", "/", "sub", "/", "A", ".", "css">>,
      <<"/", "w", "/", "lib", "/", "pcss", "/", "A", ".", "pcss">> }

ResolveItems ==
    { <<"js:module", <<"A">> >>, <<"js:gmodule", <<"A">> >>,
      <<"css:module", <<"A">> >>, <<"css:file", <<"A">> >>,
      <<"css:url", <<"u">> >> }

ResolveContexts ==
    { <<"x", ".", "sjs">>, <<"/", "w", "/", "sub", "/", "x", ".", "sjs">>, <<"sub">> }

\* a Tracker that is not used
IdleTracker ==
    /\ provides = << >>
    /\ requires = << >>
    /\ paths = << >>
    /\ resolved = << >>
    /\ nodes = << >>
    /\ pc = "idle"
    /\ loaded = << >>
    /\ todo = << >>
    /\ lstack = << >>
    /\ status = "none"
    /\ ret = EmptyRet
    /\ err = NoErr
    /\ call = NoCall
    /\ calls = 0
    /\ stack = << >>
    /\ NoHistory

InitResolve ==
    /\ IdleTracker
    /\ fs \in SUBSET ResolveUniverse
    /\ content = << >>
    /\ lookup = {}
    /\ IdlePaml
    /\ IdleSugar
    /\ rItem \in ResolveItems
    /\ rPath \in ResolveContexts
    /\ rDirs = << >>
    /\ rOut = << >>
    /\ rPc = "call"

ResolveCall ==
    /\ rPc = "call"
    /\ rOut' = LPResolve(rItem, rPath, rDirs)
    /\ rPc' = "done"
    /\ UNCHANGED <<trackerVars, pc, crawlVars, sortVars, outVars, worldVars, histVars,
                   rItem, rPath, rDirs, pamlVars, sugarVars>>

NextResolve == ResolveCall

SpecResolve == InitResolve /\ [][NextResolve]_vars

----------------------------------------------------------------------------
(* The Tracker on a file system: each of TrackerWorlds, every content of    *)
(* TrackerContents in each file, and up to MaxCalls calls of fromPath on    *)
(* the paths of EntryPaths.                                                 *)

TrackerUniverse ==
    { <<"/", "w", "/", "B", ".", "sjs">>,
      <<"/", "w", "/", "sub", "/", "A", ".", "sjs">>,
      <<"/", "w", "/", "sub", "/", "B", ".", "sjs">>,
      <<"/", "w", "/", "P", ".", "paml">>,
      <<"/", "w", "/", "Q", ".", "paml">> }

ModA == <<"js:module", <<"A">> >>
ModB == <<"js:module", <<"B">> >>
UrlU == <<"css:url", <<"u">> >>
IncQ == <<"paml:file", <<"Q", ".", "paml">> >>

\* the requires lists a Sugar file may declare
RequiresLists == { << >>, <<ModB>>, <<ModA, UrlU, ModB>> }

\* @module <name>, the name being the file's
ModuleOf(f) == <<"js:module", <<Basename(f)[1]>> >>

\* what an extractor may find in file f.  A Sugar file gives the module of its
\* name and one of the requires lists.  Of the Paml files, P.paml requires a
\* module and includes Q.paml, or includes Q.paml only; Q.paml is empty, or
\* has a <link( whose attribute list is malformed (line 353, 363, 365)
TrackerContents(f) ==
    IF Ext(f) = <<"sjs">>
    THEN {[ok |-> TRUE, provides |-> <<ModuleOf(f)>>, requires |-> r] : r \in RequiresLists}
    ELSE IF Basename(f) = <<"P", ".", "paml">>
    THEN {[ok |-> TRUE, provides |-> << >>, requires |-> r] : r \in {<<IncQ>>, <<ModB, IncQ>>}}
    ELSE {[ok |-> FALSE, provides |-> << >>, requires |-> << >>],
          [ok |-> TRUE, provides |-> << >>, requires |-> << >>]}

\* the file systems: any of the Sugar files, with both Paml files or neither
TrackerWorlds ==
    {S \in SUBSET TrackerUniverse :
        LET pamls == {f \in TrackerUniverse : Ext(f) = <<"paml">>}
        IN pamls \subseteq S \/ pamls \cap S = {}}

EntryPaths ==
    { <<"sub", "/", "A", ".", "sjs">>,
      <<"B", ".", "sjs">>,
      <<"P", ".", "paml">>,
      <<"sub", "/", "A", ".", "sjs", "+", "B", ".", "sjs">>,
      <<"sub">>,
      <<"x", ".", "txt">> }

Init ==
    /\ IdleTracker
    /\ IdleResolve
    /\ fs \in TrackerWorlds
    /\ content \in {c \in [fs -> UNION {TrackerContents(f) : f \in TrackerUniverse}] :
                       \A f \in fs : c[f] \in TrackerContents(f)}
    /\ lookup = {}
    /\ IdlePaml
    /\ IdleSugar

Crawl ==
    \/ CrawlComposite \/ CrawlVisited \/ CrawlDir \/ CrawlNoParser \/ CrawlMark
    \/ CrawlParse \/ CrawlParseFails \/ CrawlDependency \/ CrawlRecurse \/ CrawlReturn

Sort == SortBegin \/ LoadSeed \/ LoadStep \/ LoadReturn \/ SortEnd

Next ==
    \/ \E path \in EntryPaths, recursive \in BOOLEAN : FromPath(path, recursive)
    \/ Crawl
    \/ Sort

Spec == Init /\ [][Next]_vars

----------------------------------------------------------------------------
(* Claims about Tracker._sortRequires *)

\* the items reachable from the set S through nodes
RECURSIVE Reach(_)
Reach(S) ==
    LET next == S \cup UNION {Range(NodesGet(m)) : m \in S}
    IN IF next = S THEN S ELSE Reach(next)

\* m lies on a cycle of nodes that is not just m requiring itself
OnCycle(m) == m \in Reach(Range(NodesGet(m)) \ {m})

SelfLoop(m) == IsIn(m, NodesGet(m))

\* C1: the sequence _sortRequires returns holds every seed of requires and
\* every item reachable from a seed through nodes, each exactly once, and
\* nothing else -- self-loops and cycles of any length included.
SortOutputIsReachableSet ==
    status = "returned" =>
        /\ Range(ret.requires) = Reach(Range(requires))
        /\ NoDup(ret.requires)

\* a returned sort of a graph with a cycle through three items and a self-loop
SortedACyclicGraph ==
    /\ status = "returned"
    /\ Len(ret.requires) = 3
    /\ \A m \in Range(ret.requires) : OnCycle(m)
    /\ \E m \in Range(ret.requires) : SelfLoop(m)
    /\ Len(requires) = 1

\* C2: when the items reachable from requires have no cycle but self-loops,
\* every item of the returned sequence comes after all the other items it
\* requires.
SortPutsDependenciesFirst ==
    (status = "returned" /\ \A m \in Reach(Range(requires)) : ~OnCycle(m)) =>
        \A m \in Range(ret.requires) :
            \A r \in Range(NodesGet(m)) \ {m} :
                /\ IsIn(r, ret.requires)
                /\ IndexOf(r, ret.requires) < IndexOf(m, ret.requires)

\* a returned sort of a chain of three items, one requiring itself, whose
\* seed order was not the load order
SortedAChain ==
    /\ status = "returned"
    /\ \A m \in Reach(Range(requires)) : ~OnCycle(m)
    /\ \E m \in Range(ret.requires) : SelfLoop(m)
    /\ \E a, b, c \in Range(ret.requires) :
          /\ a # b /\ b # c /\ a # c
          /\ IsIn(b, NodesGet(a)) /\ IsIn(c, NodesGet(b))
          /\ requires = <<a, c>>
          /\ ret.requires = <<c, b, a>>

----------------------------------------------------------------------------
(* Claims about LineParser.resolve *)

ModuleLikeKinds == {"js:module", "js:gmodule", "css:module"}

\* the directories a module-like item is looked for in: the working
\* directory and the directory of the requiring path, and lib/<format> in both
SearchDirs(format) ==
    LET base == {Cwd, IF IsDir(rPath) THEN Abspath(rPath) ELSE Dirname(Abspath(rPath))}
    IN base \cup {b \o <<"/", "lib", "/", format>> : b \in base}

\* the preferred-format candidates of rItem that exist in the search dirs
PreferredCandidates ==
    LET t == rItem[1]
        n == rItem[2]
    IN CASE t = "js:module" ->
              {f \in fs : /\ Dirname(f) \in SearchDirs("sjs")
                          /\ \/ Basename(f) = n \o <<".", "sjs">>
                             \/ MatchPieces(<<n, <<"-">>, <<".", "sjs">> >>, Basename(f))}
         [] t = "js:gmodule" ->
              {f \in fs : /\ Dirname(f) \in SearchDirs("sjs")
                          /\ MatchPieces(<<n, <<".", "sjs">> >>, Basename(f))}
         [] t = "css:module" ->
              {f \in fs : /\ Dirname(f) \in SearchDirs("pcss")
                          /\ MatchPieces(<<n, <<".", "pcss">> >>, Basename(f))}

\* the plain-format candidates of rItem that exist in the search dirs
PlainCandidates ==
    LET t == rItem[1]
        n == rItem[2]
    IN CASE t = "js:module" ->
              {f \in fs : /\ Dirname(f) \in SearchDirs("js")
                          /\ MatchPieces(<<n \o <<"-">>, <<".", "js">> >>, Basename(f))
                          /\ ~Contains(f, <<".", "gmodule">>)}
         [] t = "js:gmodule" ->
              {f \in fs : /\ Dirname(f) \in SearchDirs("js")
                          /\ MatchPieces(<<n \o <<"-">>, <<".", "js">> >>, Basename(f))
                          /\ Contains(f, <<".", "gmodule">>)}
         [] t = "css:module" ->
              {f \in fs : /\ Dirname(f) \in SearchDirs("css")
                          /\ Basename(f) = n \o <<".", "css">>}

PreferredKind(t) ==
    CASE t = "js:module" -> "sjs:module" [] t = "js:gmodule" -> "sjs:gmodule"
      [] t = "css:module" -> "pcss:module"

\* C8: for a module-like kind, resolve returns all the preferred-format
\* candidates and no plain-format one whenever a preferred-format candidate
\* exists; when none exists and plain-format candidates do, it returns
\* exactly one of them, the last in sorted order.
ResolvePrefersPreferredFormat ==
    (rPc = "done" /\ rItem[1] \in ModuleLikeKinds) =>
        IF PreferredCandidates # {}
        THEN /\ {rOut[i][2] : i \in 1..Len(rOut)} = PreferredCandidates
             /\ \A i \in 1..Len(rOut) : rOut[i][1] = PreferredKind(rItem[1])
             /\ NoDup(rOut)
        ELSE IF PlainCandidates # {}
        THEN /\ Len(rOut) = 1
             /\ rOut[1][1] = rItem[1]
             /\ rOut[1][2] \in PlainCandidates
             /\ \A f \in PlainCandidates : f = rOut[1][2] \/ LexLess(f, rOut[1][2])
        ELSE rOut = << >>

\* a call that found preferred-format files beside plain-format ones, and
\* a call that had to choose among several plain-format files
ResolvedWithBothFormats ==
    /\ rPc = "done"
    /\ rItem[1] = "js:module"
    /\ Cardinality(PreferredCandidates) >= 2
    /\ Cardinality(PlainCandidates) >= 2

ResolvedAmongPlainFiles ==
    /\ rPc = "done"
    /\ rItem[1] \in ModuleLikeKinds
    /\ PreferredCandidates = {}
    /\ Cardinality(PlainCandidates) >= 2

----------------------------------------------------------------------------
(* Two files that require each other: sub/A.sjs requires B, sub/B.sjs       *)
(* requires A, and each requirement resolves to the other file.  fromPath   *)
(* is called recursively; once called, it runs to its end.                  *)

CycleFiles ==
    { <<"/", "w", "/", "sub", "/", "A", ".", "sjs">>,
      <<"/", "w", "/", "sub", "/", "B", ".", "sjs">> }

CycleEntries ==
    CycleFiles \cup { <<"sub", "/", "A", ".", "sjs">>, <<"sub", "/", "B", ".", "sjs">> }

InitCycle ==
    /\ IdleTracker
    /\ IdleResolve
    /\ fs = CycleFiles
    /\ \E ra \in {<<ModB>>, <<UrlU, ModB>>}, rb \in {<<ModA>>, <<UrlU, ModA>>} :
          content = [f \in CycleFiles |->
                       [ok |-> TRUE, provides |-> <<ModuleOf(f)>>,
                        requires |-> IF ModuleOf(f) = ModA THEN ra ELSE rb]]
    /\ lookup = {}
    /\ IdlePaml
    /\ IdleSugar

CrawlCycle ==
    \/ CrawlVisited \/ CrawlMark \/ CrawlParse \/ CrawlDependency \/ CrawlRecurse
    \/ CrawlReturn

NextCycle ==
    \/ \E path \in CycleEntries : FromPath(path, TRUE)
    \/ CrawlCycle
    \/ Sort

SpecCycle == InitCycle /\ [][NextCycle]_vars /\ WF_vars(CrawlCycle \/ Sort)

----------------------------------------------------------------------------
(* Claims about the crawl *)

Count(x, s) == Cardinality({i \in 1..Len(s) : s[i] = x})

\* C3: on two files that require each other, a recursive fromPath ends --
\* the crawl and the sort both -- and the requires it returns holds A and B
\* once each.
CycleCrawlTerminates ==
    (pc # "idle") ~> (/\ pc = "idle"
                      /\ status = "returned"
                      /\ Count(ModA, ret.requires) = 1
                      /\ Count(ModB, ret.requires) = 1)

\* a returned crawl of the cycle in which the file of the entry path was
\* reached again, through the other file's requirement
CycleCrawled ==
    /\ status = "returned"
    /\ pc = "idle"
    /\ calls = 1
    /\ Len(parsed) >= 2
    /\ \E i \in 1..Len(visits) : /\ i > 1
                                 /\ Abspath(visits[i].path) = Abspath(call.path)
    /\ Range(ret.requires) = {ModA, ModB}

IsPrefix(s, t) == Len(s) <= Len(t) /\ SubSeq(t, 1, Len(s)) = s

\* C4: in the life of a Tracker, paths only grows, a path is in paths before
\* parsePath is called on it, and parsePath is called on no path twice.
VisitedPathsGuardParsing ==
    [][ /\ IsPrefix(paths, paths')
        /\ parsed' # parsed =>
              /\ Len(parsed') = Len(parsed) + 1
              /\ SubSeq(parsed', 1, Len(parsed)) = parsed
              /\ IsIn(parsed'[Len(parsed')], paths)
              /\ ~IsIn(parsed'[Len(parsed')], parsed) ]_vars

\* _fromPath is entered, in a second fromPath call, on a path that was parsed
\* before for another requirement
ReachedAgain ==
    /\ pc = "crawl"
    /\ calls = 2
    /\ Top.phase = "call"
    /\ IsIn(Top.path, parsed)
    /\ \E i \in 1..Len(visits) : visits[i].path = Top.path /\ visits[i].via # Top.via
    /\ Top.via # EntryVia

\* the files are all well-formed
AllWellFormed == \A f \in fs : content[f].ok

\* C5: for a composite path whose combined name does not exist and whose
\* siblings do, fromPath crawls each sibling and returns normally with both
\* recorded in provides.
CompositePathCrawlsSiblings ==
    (/\ pc = "idle"
     /\ calls >= 1
     /\ IsComposite(call.path)
     /\ \A q \in Range(ExpandComposite(call.path)) : Abspath(q) \in fs
     /\ AllWellFormed)
    => /\ status = "returned"
       /\ \A q \in Range(ExpandComposite(call.path)) :
             \E i \in 1..Len(provides) : provides[i][1] = q

\* the paths _fromPath is called on for the requirements of the file at p
CrawlTargets(p) ==
    IF Abspath(p) \in fs /\ HasParser(p) /\ content[Abspath(p)].ok
    THEN UNION {Range(ResolvedPaths(d, p)) :
                   d \in {e \in Range(content[Abspath(p)].requires) : ~KindEndsWithUrl(e[1])}}
    ELSE {}

\* the paths reachable from the set S through requirements that resolve
RECURSIVE ReachablePaths(_)
ReachablePaths(S) ==
    LET next == S \cup UNION {CrawlTargets(p) : p \in S}
    IN IF next = S THEN S ELSE ReachablePaths(next)

\* the crawl visited nothing for a requirement that did not resolve
NothingVisitedFor(u) ==
    \A i \in 1..Len(visits) : ~(visits[i].via.item = u[1] /\ visits[i].via.from = u[2])

\* C6 as stated: in a recursive crawl in which an item does not resolve, the
\* crawl still returns, covering every file reachable through what resolves;
\* the item is in the returned requires, is not in resolved, and no path is
\* visited for it.
UnresolvedItemNotInResolved ==
    (pc = "idle" /\ status = "returned" /\ call.recursive) =>
        /\ \A q \in ReachablePaths({call.path}) : IsDir(q) \/ IsIn(q, paths)
        /\ \A u \in unres : /\ IsIn(u[1], ret.requires)
                            /\ u[1] \notin DOMAIN ret.resolved
                            /\ NothingVisitedFor(u)

\* C6 as amended: in the first crawl of a Tracker, recursive, in which an
\* item does not resolve, the crawl still returns, covering every file
\* reachable through what resolves; the item is in the returned requires and
\* is a key of resolved, with an empty list when no resolve call found a
\* candidate for it; no path is visited for it.
UnresolvedItemKeptWithoutPaths ==
    (pc = "idle" /\ status = "returned" /\ call.recursive /\ calls = 1) =>
        /\ \A q \in ReachablePaths({call.path}) : IsDir(q) \/ IsIn(q, paths)
        /\ \A u \in unres : /\ IsIn(u[1], ret.requires)
                            /\ u[1] \in DOMAIN ret.resolved
                            /\ hist[u[1]] = << >> => ret.resolved[u[1]] = << >>
                            /\ NothingVisitedFor(u)

\* a returned recursive crawl in which one requirement of a file did not
\* resolve and a later one of the same file did and was crawled
CrawledPastUnresolved ==
    /\ pc = "idle"
    /\ status = "returned"
    /\ call.recursive
    /\ calls = 1
    /\ \E u \in unres :
          \E i \in 1..Len(visits) : /\ visits[i].via.from = u[2]
                                    /\ visits[i].via.item # u[1]
                                    /\ IsIn(visits[i].path, parsed)

Malformed(p) == Abspath(p) \in fs /\ ~content[Abspath(p)].ok

ResolveMergesCandidates ==
    \A item \in DOMAIN hist : item \in DOMAIN resolved /\ resolved[item] = hist[item]

----------------------------------------------------------------------------
(* Paml.parsePath on a text.  A line is its indentation (the number of      *)
(* leading tabs) and what the regular expressions see after it:             *)
(*   "script:sugar"  <script@sugar        "script:js"  <script              *)
(*   "feature2"      @feature sugar 2     "import"     @import x            *)
(*   "tag"           anything else                                          *)

\* longest text
MaxLines == 3

\* deepest indentation of a line
MaxIndent == 2

LineKinds == {"script:sugar", "script:js", "feature2", "import", "tag"}

PamlLines == [indent : 0..MaxIndent, kind : LineKinds]

PamlTexts == SeqsUpTo(PamlLines, MaxLines) \ {<< >>}

\* ("js:module", "extend") and ("js:module", "x")
Extend == <<"js:module", <<"extend">> >>
ImportX == <<"js:module", <<"x">> >>

\* RE_SCRIPT.match(line)
IsScript(line) == line.kind \in {"script:sugar", "script:js"}

\* script.group(1) of "(\t)*<script": the last tab matched, None when the
\* line has no tab
ScriptGroup1(line) == IF line.indent = 0 THEN "None" ELSE "\t"

\* len(script.group(1)) for a group that is not None: the group is repeated,
\* and holds its last repetition, one tab, however many tabs the line has
ScriptIndent(line) == 1

\* Paml._getIndentation(line)
GetIndentation(line) == line.indent

\* the nested extractor's parseLine on line[indent:]: Sugar.onSugar2 and
\* Sugar.onImport; the rules of JavaScript match none of these lines
SubParseLine(sub, reqs, line) ==
    IF sub.lang = "sugar" /\ line.kind = "feature2"
    THEN [sub |-> [sub EXCEPT !.version = 2], reqs |-> reqs]
    ELSE IF sub.lang = "sugar" /\ line.kind = "import"
    THEN [sub |-> sub, reqs |-> Append(reqs, ImportX)]
    ELSE [sub |-> sub, reqs |-> reqs]

\* the nested extractor's onParseEnd on the shared requires: Sugar.onParseEnd
\* inserts the extend module first when version is 1; LineParser.onParseEnd
\* does nothing
SubOnParseEnd(sub, reqs) ==
    IF sub.lang = "sugar" /\ sub.version = 1 THEN <<Extend>> \o reqs ELSE reqs

Hook(h, id, n) == [hook |-> h, id |-> id, line |-> n]

\* the nested extractors created so far
Started == {hooks[i].id : i \in {j \in 1..Len(hooks) : hooks[j].hook = "onParse"}} \ {0}

\* line 325-331: a nested extractor is active: the line is passed on to it
\* when it is deeper than subparserIndent, else the extractor is ended
AfterActive(st, line, n) ==
    IF st.sub = NoSubparser THEN st
    ELSE IF GetIndentation(line) > st.indent
    THEN LET r == SubParseLine(st.sub, st.reqs, line)
         IN [st EXCEPT !.sub = r.sub, !.reqs = r.reqs]
    ELSE [st EXCEPT !.sub = NoSubparser,
                    !.reqs = SubOnParseEnd(st.sub, st.reqs),
                    !.hooks = Append(st.hooks, Hook("onParseEnd", st.sub.id, n))]

\* line 332-334: a script line ends the nested extractor that is still there
AfterScriptEnds(st, line, n) ==
    IF IsScript(line) /\ st.sub # NoSubparser
    THEN [st EXCEPT !.sub = NoSubparser,
                    !.reqs = SubOnParseEnd(st.sub, st.reqs),
                    !.hooks = Append(st.hooks, Hook("onParseEnd", st.sub.id, n))]
    ELSE st

\* line 335-344: a script line creates a nested extractor, calls its onParse
\* and binds the shared lists to it
AfterScriptStarts(st, line, n, id) ==
    IF IsScript(line)
    THEN [st EXCEPT !.sub = [id |-> id,
                             lang |-> IF line.kind = "script:sugar" THEN "sugar" ELSE "js",
                             version |-> IF line.kind = "script:sugar" THEN 1 ELSE 0],
                    !.indent = ScriptIndent(line),
                    !.hooks = Append(st.hooks, Hook("onParse", id, n))]
    ELSE st

\* line 345, super().parseLine(line): the rule table of Paml is applied to
\* the line (none of its rules matches the lines of this model)
AfterRules(st, line, n) == [st EXCEPT !.hooks = Append(st.hooks, Hook("rules", 0, n))]

PamlState ==
    [sub |-> subparser, indent |-> subparserIndent, reqs |-> parserRequires,
     hooks |-> hooks]

SetPamlState(st) ==
    /\ subparser' = st.sub
    /\ subparserIndent' = st.indent
    /\ parserRequires' = st.reqs
    /\ hooks' = st.hooks

\* LineParser.parsePath, line 70-73: the file is opened, onParse is called
PamlParsePath ==
    /\ ppc = "new"
    /\ ppc' = "lines"
    /\ hooks' = Append(hooks, Hook("onParse", 0, 0))
    /\ UNCHANGED <<text, lineNo, subparser, subparserIndent, parserRequires>>
    /\ UNCHANGED <<trackerVars, pc, crawlVars, sortVars, outVars, worldVars, histVars,
                   resolveVars, sugarVars>>

\* Paml.parseLine on the next line
PamlParseLine ==
    /\ ppc = "lines"
    /\ lineNo < Len(text)
    /\ LET n    == lineNo + 1
           line == text[n]
       IN /\ ~(IsScript(line) /\ ScriptGroup1(line) = "None")
          /\ SetPamlState(AfterRules(
                 AfterScriptStarts(
                     AfterScriptEnds(AfterActive(PamlState, line, n), line, n),
                     line, n, Cardinality(Started) + 1),
                 line, n))
    /\ lineNo' = lineNo + 1
    /\ UNCHANGED <<text, ppc>>
    /\ UNCHANGED <<trackerVars, pc, crawlVars, sortVars, outVars, worldVars, histVars,
                   resolveVars, sugarVars>>

\* Paml.parseLine on a script line without a tab: len(None) is a TypeError
\* that nothing catches, after line 325-334 had their effect
PamlParseLineRaises ==
    /\ ppc = "lines"
    /\ lineNo < Len(text)
    /\ LET n    == lineNo + 1
           line == text[n]
       IN /\ IsScript(line) /\ ScriptGroup1(line) = "None"
          /\ SetPamlState(AfterScriptEnds(AfterActive(PamlState, line, n), line, n))
    /\ lineNo' = lineNo + 1
    /\ ppc' = "raised"
    /\ UNCHANGED text
    /\ UNCHANGED <<trackerVars, pc, crawlVars, sortVars, outVars, worldVars, histVars,
                   resolveVars, sugarVars>>

\* LineParser.parsePath, line 75-78: after the last line the Paml's own
\* onParseEnd is called, which is LineParser.onParseEnd: Paml does not
\* override it
PamlParseEnd ==
    /\ ppc = "lines"
    /\ lineNo = Len(text)
    /\ ppc' = "done"
    /\ hooks' = Append(hooks, Hook("onParseEnd", 0, lineNo))
    /\ UNCHANGED <<text, lineNo, subparser, subparserIndent, parserRequires>>
    /\ UNCHANGED <<trackerVars, pc, crawlVars, sortVars, outVars, worldVars, histVars,
                   resolveVars, sugarVars>>

InitPaml ==
    /\ IdleTracker
    /\ IdleResolve
    /\ fs = {}
    /\ content = << >>
    /\ lookup = {}
    /\ text \in PamlTexts
    /\ lineNo = 0
    /\ ppc = "new"
    /\ subparser = NoSubparser
    /\ subparserIndent = 0
    /\ parserRequires = << >>
    /\ hooks = << >>
    /\ IdleSugar

NextPaml == PamlParsePath \/ PamlParseLine \/ PamlParseLineRaises \/ PamlParseEnd

SpecPaml == InitPaml /\ [][NextPaml]_vars

----------------------------------------------------------------------------
(* Claims about the Paml extractor *)

HooksOf(h, id) == {i \in 1..Len(hooks) : hooks[i].hook = h /\ hooks[i].id = id}

\* C10: every nested extractor an embedded script region started has its
\* onParseEnd called exactly once when the region ends, by a line that falls
\* back to the fence's indentation or below, or by the end of the file; at
\* such a line the end hook comes before the rule table of the Paml is
\* applied to the line.
NestedExtractorsEndOnce ==
    ppc = "done" =>
        \A id \in Started :
            /\ Cardinality(HooksOf("onParseEnd", id)) = 1
            /\ \A i \in HooksOf("onParseEnd", id) :
                  \A j \in HooksOf("rules", 0) : hooks[j].line = hooks[i].line => i < j

----------------------------------------------------------------------------
(* The line engine on a Sugar file: LineParser.parsePath, LineParser.parse  *)
(* and LineParser.parseText, with the hooks and the rules of Sugar.  A text *)
(* is a sequence of tokens: the newline, and what stands on a line:         *)
(*   "@module A"   "@feature sugar 2"   "@import x"   "@import"   "text"    *)

\* longest text, in tokens
MaxTokens == 4

Newline == "\n"

LineBodies == {"@module A", "@feature sugar 2", "@import x", "@import", "text"}

\* the texts: at most one of LineBodies between two newlines
SugarTexts ==
    {t \in SeqsUpTo(LineBodies \cup {Newline}, MaxTokens) :
        \A i \in 1..(Len(t) - 1) : t[i] = Newline \/ t[i + 1] = Newline}

\* f.readlines(): the text cut after every newline, the newline kept
RECURSIVE ReadLines(_, _)
ReadLines(t, line) ==
    IF t = << >> THEN (IF line = << >> THEN << >> ELSE <<line>>)
    ELSE IF Head(t) = Newline THEN <<Append(line, Newline)>> \o ReadLines(Tail(t), << >>)
    ELSE ReadLines(Tail(t), Append(line, Head(t)))

\* text.split("\n"): the text cut at every newline, the newline dropped
RECURSIVE SplitNewline(_, _)
SplitNewline(t, line) ==
    IF t = << >> THEN <<line>>
    ELSE IF Head(t) = Newline THEN <<line>> \o SplitNewline(Tail(t), << >>)
    ELSE SplitNewline(Tail(t), Append(line, Head(t)))

\* ("js:module", "A"): self.type is None in these runs
ProvideA == <<"js:module", <<"A">> >>

\* the rule of Sugar.LINES that matches the line, "none" when none does
RuleOf(line) ==
    IF line = << >> THEN "none"
    ELSE CASE Head(line) = "@module A" -> "onModule"
           [] Head(line) = "@feature sugar 2" -> "onSugar2"
           [] Head(line) \in {"@import x", "@import"} -> "onImport"
           [] OTHER -> "none"

\* Sugar.onImport raises: nothing is left of the line after "@import", and
\* [0] of the empty split() is an IndexError
ImportRaises(line) == line # << >> /\ Head(line) = "@import"

SugarHook(h, line) == [hook |-> h, line |-> line]

\* Sugar.onParse
SugarOnParse ==
    /\ sRequires' = << >>
    /\ version' = 1
    /\ sHooks' = Append(sHooks, SugarHook("onParse", << >>))

\* Sugar.onParseEnd on the requires list
SugarOnParseEnd(v, reqs) == IF v = 1 THEN <<Extend>> \o reqs ELSE reqs

\* LineParser.parsePath up to the for loop
SugarParsePath ==
    /\ sPc = "new"
    /\ sEntry = "parsePath"
    /\ SugarOnParse
    /\ sLines' = ReadLines(sText, << >>)
    /\ sPc' = "lines"
    /\ UNCHANGED <<sText, sEntry, sLineNo, sProvides>>
    /\ UNCHANGED <<trackerVars, pc, crawlVars, sortVars, outVars, worldVars, histVars,
                   resolveVars, pamlVars>>

\* LineParser.parseText: it calls parse
SugarParseText ==
    /\ sPc = "new"
    /\ sEntry = "parseText"
    /\ sPc' = "parse"
    /\ UNCHANGED <<sText, sEntry, sLines, sLineNo, version, sProvides, sRequires, sHooks>>
    /\ UNCHANGED <<trackerVars, pc, crawlVars, sortVars, outVars, worldVars, histVars,
                   resolveVars, pamlVars>>

\* LineParser.parse up to the for loop
SugarParse ==
    /\ \/ sPc = "new" /\ sEntry = "parse"
       \/ sPc = "parse"
    /\ SugarOnParse
    /\ sLines' = SplitNewline(sText, << >>)
    /\ sPc' = "lines"
    /\ UNCHANGED <<sText, sEntry, sLineNo, sProvides>>
    /\ UNCHANGED <<trackerVars, pc, crawlVars, sortVars, outVars, worldVars, histVars,
                   resolveVars, pamlVars>>

\* LineParser.parseLine on the next line, with the rule of Sugar it matches
SugarParseLine ==
    /\ sPc = "lines"
    /\ sLineNo < Len(sLines)
    /\ LET line == sLines[sLineNo + 1]
       IN /\ ~ImportRaises(line)
          /\ sHooks' = Append(sHooks, SugarHook("parseLine", line))
          /\ sProvides' = IF RuleOf(line) = "onModule"
                          THEN Append(sProvides, ProvideA) ELSE sProvides
          /\ version' = IF RuleOf(line) = "onSugar2" THEN 2 ELSE version
          /\ sRequires' = IF RuleOf(line) = "onImport"
                          THEN Append(sRequires, ImportX) ELSE sRequires
    /\ sLineNo' = sLineNo + 1
    /\ UNCHANGED <<sText, sEntry, sPc, sLines>>
    /\ UNCHANGED <<trackerVars, pc, crawlVars, sortVars, outVars, worldVars, histVars,
                   resolveVars, pamlVars>>

\* LineParser.parseLine on a line on which Sugar.onImport raises: nothing
\* catches the IndexError
SugarParseLineRaises ==
    /\ sPc = "lines"
    /\ sLineNo < Len(sLines)
    /\ ImportRaises(sLines[sLineNo + 1])
    /\ sHooks' = Append(sHooks, SugarHook("parseLine", sLines[sLineNo + 1]))
    /\ sLineNo' = sLineNo + 1
    /\ sPc' = "raised"
    /\ UNCHANGED <<sText, sEntry, sLines, version, sProvides, sRequires>>
    /\ UNCHANGED <<trackerVars, pc, crawlVars, sortVars, outVars, worldVars, histVars,
                   resolveVars, pamlVars>>

\* LineParser.parsePath after the for loop: onParseEnd, then it returns
SugarParsePathEnd ==
    /\ sPc = "lines"
    /\ sLineNo = Len(sLines)
    /\ sEntry = "parsePath"
    /\ sRequires' = SugarOnParseEnd(version, sRequires)
    /\ sHooks' = Append(sHooks, SugarHook("onParseEnd", << >>))
    /\ sPc' = "done"
    /\ UNCHANGED <<sText, sEntry, sLines, sLineNo, version, sProvides>>
    /\ UNCHANGED <<trackerVars, pc, crawlVars, sortVars, outVars, worldVars, histVars,
                   resolveVars, pamlVars>>

\* LineParser.parse after the for loop: it returns
SugarParseReturn ==
    /\ sPc = "lines"
    /\ sLineNo = Len(sLines)
    /\ sEntry \in {"parse", "parseText"}
    /\ sPc' = "done"
    /\ UNCHANGED <<sText, sEntry, sLines, sLineNo, version, sProvides, sRequires, sHooks>>
    /\ UNCHANGED <<trackerVars, pc, crawlVars, sortVars, outVars, worldVars, histVars,
                   resolveVars, pamlVars>>

InitSugar ==
    /\ IdleTracker
    /\ IdleResolve
    /\ IdlePaml
    /\ fs = {}
    /\ content = << >>
    /\ lookup = {}
    /\ sText \in SugarTexts
    /\ sEntry \in {"parsePath", "parse", "parseText"}
    /\ sPc = "new"
    /\ sLines = << >>
    /\ sLineNo = 0
    /\ version = 0
    /\ sProvides = << >>
    /\ sRequires = << >>
    /\ sHooks = << >>

NextSugar ==
    \/ SugarParsePath
    \/ SugarParseText
    \/ SugarParse
    \/ SugarParseLine
    \/ SugarParseLineRaises
    \/ SugarParsePathEnd
    \/ SugarParseReturn

SpecSugar == InitSugar /\ [][NextSugar]_vars

----------------------------------------------------------------------------
(* Claims about the line engine *)

HookIndexes(h) == {i \in 1..Len(sHooks) : sHooks[i].hook = h}

\* what stands on the lines of a text, in order
Bodies(t) == SelectSeq(t, LAMBDA x : x # Newline)

\* the lines parseLine was called on, one after the other
RECURSIVE Dispatched(_)
Dispatched(h) ==
    IF h = << >> THEN << >>
    ELSE (IF Head(h).hook = "parseLine" THEN Head(h).line ELSE << >>) \o Dispatched(Tail(h))

\* C11: every run of the engine that ends, through parsePath as through
\* parse and parseText, calls onParse once before any line, dispatches the
\* lines in the order of the file, and calls onParseEnd once after the last
\* line, so that what onParseEnd declares (the extend module of a Sugar file
\* without the version 2 marker) is in the result.
EngineBracketsLines ==
    sPc = "done" =>
        /\ HookIndexes("onParse") = {1}
        /\ HookIndexes("onParseEnd") = {Len(sHooks)}
        /\ Len(sHooks) >= 2
        /\ Bodies(Dispatched(sHooks)) = Bodies(sText)
        /\ version = 1 => (sRequires # << >> /\ Head(sRequires) = Extend)

----------------------------------------------------------------------------
(* LineParser.resolve for an item without a kind, as Resolver.find calls    *)
(* it: resolve((None, name), path, self.paths).  Every file system within   *)
(* FindUniverse, the names B and A.B, a context path, the search paths of   *)
(* the Resolver, then one call.                                             *)

NameB == <<"B">>
NameAB == <<"A", ".", "B">>

FindUniverse ==
    { <<"/", "w", "/", "A", "/", "B", ".", "sjs">>,
      <<"/", "w", "/", "A", "/", "B", "-", "1", ".", "js">>,
      <<"/", "w", "/", "A", ".", "B", ".", "css">>,
      <<"/", "w", "/", "A", "/", "B", ".", "css">>,
      <<"/", "w", "/", "A", ".", "B">>,
      <<"/", "w", "/", "A", "/", "B">>,
      <<"/", "w", "/", "B", ".", "sjs">>,
      <<"/", "w", "/", "B", ".", "css">>,
      <<"/", "w", "/", "sub", "/", "B", ".", "css">>,
      <<"/", "w", "/", "B">> }

\* (None, element)
FindItems == { <<NoKind, NameB>>, <<NoKind, NameAB>> }

FindContexts == { <<"x", ".", "sjs">>, <<"sub">> }

\* Resolver.paths
FindPaths == { << >>, << <<"/", "w", "/", "sub">> >> }

InitFind ==
    /\ IdleTracker
    /\ fs \in SUBSET FindUniverse
    /\ content = << >>
    /\ lookup = {}
    /\ IdlePaml
    /\ IdleSugar
    /\ rItem \in FindItems
    /\ rPath \in FindContexts
    /\ rDirs \in FindPaths
    /\ rOut = << >>
    /\ rPc = "call"

SpecFind == InitFind /\ [][NextResolve]_vars

----------------------------------------------------------------------------
(* Claims about LineParser.resolve without a kind *)

\* every strategy on the name as the caller gave it, one after the other
EveryStrategy(name, dirs) ==
    ModuleStrategy(name, dirs) \o GModuleStrategy(name, dirs)
        \o CssStrategy(name, dirs) \o FileStrategy(NoKind, name, dirs)

\* C12: for an item without a kind, resolve returns the first-seen
\* deduplication of the results of the module, generated-module, css-module
\* and file strategies, one after the other, each applied to the name as the
\* caller gave it, for names with dots as for the others.
ResolveWithoutKindTriesEveryStrategy ==
    (rPc = "done" /\ rItem[1] = NoKind) =>
        rOut = Dedup(EveryStrategy(rItem[2], ResolveDirs(rPath, rDirs)))

====
